  {<<<<"m","a","l","a","g","a">>, 367213, -44213>>,
   <<<<"m","a","d","r","i","d">>, 404168, -37038>>,
   <<<<"b","a","r","c","e","l","o","n","a">>, 413851, 21734>>,
   <<<<"v","a","l","e","n","c","i","a">>, 394699, -3763>>,
   <<<<"s","e","v","i","l","l","e">>, 373891, -59845>>,
   <<<<"f","u","e","n","g","i","r","o","l","a">>, 365393, -46249>>,
   <<<<"m","a","r","b","e","l","l","a">>, 365100, -48861>>,
   <<<<"l","o","n","d","o","n">>, 515074, -1278>>,
   <<<<"p","a","r","i","s">>, 488566, 23522>>,
   <<<<"b","e","r","l","i","n">>, 525200, 134050>>,
   <<<<"r","o","m","e">>, 419028, 124964>>,
   <<<<"a","m","s","t","e","r","d","a","m">>, 523676, 49041>>,
   <<<<"l","i","s","b","o","n">>, 387223, -91393>>,
   <<<<"n","e","w"," ","y","o","r","k">>, 407128, -740060>>,
   <<<<"l","o","s"," ","a","n","g","e","l","e","s">>, 340522, -1182437>>,
   <<<<"c","h","i","c","a","g","o">>, 418781, -876298>>,
   <<<<"t","o","r","o","n","t","o">>, 436532, -793832>>,
   <<<<"m","e","x","i","c","o"," ","c","i","t","y">>, 194326, -991332>>,
   <<<<"b","u","e","n","o","s"," ","a","i","r","e","s">>, 346037, -583816>>,
   <<<<"t","o","k","y","o">>, 356762, 1396503>>,
   <<<<"b","e","i","j","i","n","g">>, 399042, 1164074>>,
   <<<<"s","y","d","n","e","y">>, 338688, 1512093>>,
   <<<<"s","i","n","g","a","p","o","r","e">>, 13521, 1038198>>,
   <<<<"d","u","b","a","i">>, 252048, 552708>>}
---- MODULE Spec2Model ----
(***************************************************************************)
(* Model of the two tool functions of weather_distance_app.py:             *)
(* get_weather (one HTTP GET, response parsing, error classification) and  *)
(* calculate_distance (gazetteer lookup, haversine, unit conversion).      *)
(*                                                                         *)
(* Strings that the code inspects character by character (city names) are  *)
(* sequences of one-character strings.  Floating-point numbers are fixed   *)
(* point integers; every fixed-point operation rounds symmetrically in the *)
(* sign of its operands, as IEEE-754 arithmetic does.                      *)
(***************************************************************************)
EXTENDS Integers, Sequences, FiniteSets, TLC

VARIABLES tool, pc, city, from_city, to_city, response, result, calls, gets,
          city_coordinates

vars == <<tool, pc, city, from_city, to_city, response, result, calls, gets,
          city_coordinates>>

(***************************************************************************)
(* Bounds of the model.                                                    *)
(***************************************************************************)
\* number of invocations of the tool made one after the other
MaxCalls == 2

(***************************************************************************)
(* City names: str.lower(), and the arguments the tools are called with.   *)
(***************************************************************************)
UpperChars == <<"A","B","C","D","E","F","G","H","I","J","K","L","M",
                "N","O","P","Q","R","S","T","U","V","W","X","Y","Z">>

LowerChars == <<"a","b","c","d","e","f","g","h","i","j","k","l","m",
                "n","o","p","q","r","s","t","u","v","w","x","y","z">>

\* a value that is not a str (None): it has no method lower
NoneArg == <<"<None>">>

\* str.lower() on one character
lower_char(c) ==
  IF \E i \in 1..26 : UpperChars[i] = c
  THEN LowerChars[CHOOSE i \in 1..26 : UpperChars[i] = c]
  ELSE c

\* str.lower()
lower(s) == [i \in 1..Len(s) |-> lower_char(s[i])]

\* str.upper() on one character, used to build the arguments
upper_char(c) ==
  IF \E i \in 1..26 : LowerChars[i] = c
  THEN UpperChars[CHOOSE i \in 1..26 : LowerChars[i] = c]
  ELSE c

upper(s) == [i \in 1..Len(s) |-> upper_char(s[i])]

capitalize(s) == [i \in 1..Len(s) |-> IF i = 1 THEN upper_char(s[i]) ELSE s[i]]

(***************************************************************************)
(* The gazetteer literal of calculate_distance; degrees times 10^4.        *)
(***************************************************************************)
CityCoordinates ==
       <<"m","a","l","a","g","a">> :> [lat |-> 367213, lon |-> -44213] @@
       <<"m","a","d","r","i","d">> :> [lat |-> 404168, lon |-> -37038] @@
       <<"b","a","r","c","e","l","o","n","a">> :> [lat |-> 413851, lon |-> 21734] @@
       <<"v","a","l","e","n","c","i","a">> :> [lat |-> 394699, lon |-> -3763] @@
       <<"s","e","v","i","l","l","e">> :> [lat |-> 373891, lon |-> -59845] @@
       <<"f","u","e","n","g","i","r","o","l","a">> :> [lat |-> 365393, lon |-> -46249] @@
       <<"m","a","r","b","e","l","l","a">> :> [lat |-> 365100, lon |-> -48861] @@
       <<"l","o","n","d","o","n">> :> [lat |-> 515074, lon |-> -1278] @@
       <<"p","a","r","i","s">> :> [lat |-> 488566, lon |-> 23522] @@
       <<"b","e","r","l","i","n">> :> [lat |-> 525200, lon |-> 134050] @@
       <<"r","o","m","e">> :> [lat |-> 419028, lon |-> 124964] @@
       <<"a","m","s","t","e","r","d","a","m">> :> [lat |-> 523676, lon |-> 49041] @@
       <<"l","i","s","b","o","n">> :> [lat |-> 387223, lon |-> -91393] @@
       <<"n","e","w"," ","y","o","r","k">> :> [lat |-> 407128, lon |-> -740060] @@
       <<"l","o","s"," ","a","n","g","e","l","e","s">> :> [lat |-> 340522, lon |-> -1182437] @@
       <<"c","h","i","c","a","g","o">> :> [lat |-> 418781, lon |-> -876298] @@
       <<"t","o","r","o","n","t","o">> :> [lat |-> 436532, lon |-> -793832] @@
       <<"m","e","x","i","c","o"," ","c","i","t","y">> :> [lat |-> 194326, lon |-> -991332] @@
       <<"b","u","e","n","o","s"," ","a","i","r","e","s">> :> [lat |-> 346037, lon |-> -583816] @@
       <<"t","o","k","y","o">> :> [lat |-> 356762, lon |-> 1396503] @@
       <<"b","e","i","j","i","n","g">> :> [lat |-> 399042, lon |-> 1164074] @@
       <<"s","y","d","n","e","y">> :> [lat |-> 338688, lon |-> 1512093] @@
       <<"s","i","n","g","a","p","o","r","e">> :> [lat |-> 13521, lon |-> 1038198] @@
       <<"d","u","b","a","i">> :> [lat |-> 252048, lon |-> 552708]

(***************************************************************************)
(* Fixed-point arithmetic: a float is an integer number of 1/Scale, and    *)
(* every intermediate value fits 32 bits.                                  *)
(***************************************************************************)
\* a product is formed from two limbs of Limb each
Limb == 10 ^ 4

\* one unit of a fixed-point number is 1/Scale
Scale == Limb * Limb

Abs(x) == IF x < 0 THEN 0 - x ELSE x

Sign(x) == IF x < 0 THEN 0 - 1 ELSE 1

\* a / b for b > 0, rounded to nearest, ties to even, symmetric in the sign
RoundDiv(a, b) ==
  LET q == Abs(a) \div b
      m == Abs(a) % b
      up == (2 * m > b) \/ (2 * m = b /\ q % 2 = 1)
  IN  Sign(a) * (IF up THEN q + 1 ELSE q)

\* product of two fixed-point numbers, a * b / Scale
FMul(a, b) ==
  LET ah == Abs(a) \div Limb
      al == Abs(a) % Limb
      bh == Abs(b) \div Limb
      bl == Abs(b) % Limb
      mid == ah * bl + al * bh + RoundDiv(al * bl, Limb)
  IN  Sign(a) * Sign(b) * (ah * bh + RoundDiv(mid, Limb))

\* math.radians: degrees times 10^4 to radians; pi/180 = 0.0174532925
radians(d) ==
  Sign(d) * (Abs(d) * 174 + RoundDiv(Abs(d) * 53, 100) + RoundDiv(Abs(d) * 29, 10000)
             + RoundDiv(Abs(d) * 25, 1000000))

RECURSIVE SinSeries(_, _, _, _)
SinSeries(x, t, k, acc) ==
  IF t = 0 THEN acc
  ELSE LET u == RoundDiv(FMul(t, x), 2 * k)
           n == 0 - RoundDiv(FMul(u, x), 2 * k + 1)
       IN  SinSeries(x, n, k + 1, acc + n)

\* math.sin
sin(x) == SinSeries(x, x, 1, x)

RECURSIVE CosSeries(_, _, _, _)
CosSeries(x, t, k, acc) ==
  IF t = 0 THEN acc
  ELSE LET u == RoundDiv(FMul(t, x), 2 * k - 1)
           n == 0 - RoundDiv(FMul(u, x), 2 * k)
       IN  CosSeries(x, n, k + 1, acc + n)

\* math.cos
cos(x) == CosSeries(x, Scale, 1, Scale)

\* ceiling of a / b for a >= 0, b > 0
CeilDiv(a, b) == (a + b - 1) \div b

\* v * v <= a * Scale, for 0 <= v <= Scale
SquareAtMost(v, a) ==
  LET vh == v \div Limb
      vl == v % Limb
  IN  vh * vh + CeilDiv(2 * vh * vl + CeilDiv(vl * vl, Limb), Limb) <= a

RECURSIVE SqrtSearch(_, _, _)
SqrtSearch(a, lo, hi) ==
  IF lo >= hi THEN lo
  ELSE LET mid == (lo + hi + 1) \div 2
       IN  IF SquareAtMost(mid, a) THEN SqrtSearch(a, mid, hi)
           ELSE SqrtSearch(a, lo, mid - 1)

\* math.sqrt of a fixed-point number in [0, 1]
sqrt(a) == SqrtSearch(a, 0, Scale)

\* pi/2
HalfPi == radians(900000)

RECURSIVE AsinSearch(_, _, _)
AsinSearch(y, lo, hi) ==
  IF lo >= hi THEN lo
  ELSE LET mid == (lo + hi) \div 2
       IN  IF sin(mid) >= y THEN AsinSearch(y, lo, mid)
           ELSE AsinSearch(y, mid + 1, hi)

\* math.asin for 0 <= y <= 1: the least angle whose sine reaches y
asin(y) == AsinSearch(y, 0, HalfPi)

\* radius of earth in kilometers
r == 6371

\* x ** 2
square(x) == FMul(x, x)

\* a faulty variant of haversine_a that takes the cosine of lat1 twice
haversine_a_lat1_twice(lat1, lat2, dlat, dlon) ==
  square(sin(RoundDiv(dlat, 2)))
    + FMul(FMul(cos(lat1), cos(lat1)), square(sin(RoundDiv(dlon, 2))))

\* a = sin(dlat/2)**2 + cos(lat1) * cos(lat2) * sin(dlon/2)**2
haversine_a(lat1, lat2, dlat, dlon) ==
  square(sin(RoundDiv(dlat, 2)))
    + FMul(FMul(cos(lat1), cos(lat2)), square(sin(RoundDiv(dlon, 2))))

\* haversine_distance: kilometres times 10^4, or the exception math.asin
\* raises when its argument exceeds 1 ("math domain error")
haversine_distance(lat1d, lon1d, lat2d, lon2d) ==
  LET lat1 == radians(lat1d)
      lon1 == radians(lon1d)
      lat2 == radians(lat2d)
      lon2 == radians(lon2d)
      dlon == lon2 - lon1
      dlat == lat2 - lat1
      a == haversine_a(lat1, lat2, dlat, dlon)
      c == 2 * asin(sqrt(a))
  IN  IF a > Scale
      THEN [raised |-> "ValueError", value |-> 0]
      ELSE [raised |-> "", value |-> (c \div Limb) * r + RoundDiv((c % Limb) * r, Limb)]

(***************************************************************************)
(* Result payloads.  A message built by an f-string is the pair of its     *)
(* template and the value formatted into it.                               *)
(***************************************************************************)
\* the result variable before the first call returns
NoResult == [pending |-> TRUE]

Message(template, arg) == [template |-> template, arg |-> arg]

\* an exception that leaves the tool function
Propagates(e) == [uncaught |-> e]

\* classes derived from Exception that the tools can meet
ExceptionClasses ==
  {"Timeout", "ConnectionError", "requests.JSONDecodeError", "json.JSONDecodeError",
   "KeyError", "IndexError", "TypeError", "AttributeError", "ValueError"}

\* classes derived from requests.exceptions.RequestException
RequestExceptions == {"Timeout", "ConnectionError", "requests.JSONDecodeError"}

(***************************************************************************)
(* calculate_distance                                                      *)
(***************************************************************************)
\* distance_km * 0.621371, on kilometres times 10^4
to_miles(km) ==
  LET q == km \div 1000
      m == km % 1000
  IN  q * 621 + RoundDiv(q * 371, 1000) + RoundDiv(m * 621371, 1000000)

\* round(x, 2) of a number times 10^4: the result is in hundredths
round2(x) == RoundDiv(x, 100)

Whitespace == {" ", "\t", "\n"}

RECURSIVE lstrip(_)
lstrip(s) == IF s # <<>> /\ Head(s) \in Whitespace THEN lstrip(Tail(s)) ELSE s

RECURSIVE rstrip(_)
rstrip(s) ==
  IF s # <<>> /\ s[Len(s)] \in Whitespace THEN rstrip(SubSeq(s, 1, Len(s) - 1)) ELSE s

\* str.strip(), which calculate_distance does not call
strip(s) == rstrip(lstrip(s))

\* a variant of normalize that also trims the name
normalize_trimming(s) == lower(strip(s))

\* a variant of normalize that leaves the name as given
normalize_as_given(s) == s

\* the normalisation of a city name for the lookup
normalize(s) == lower(s)

\* a variant of not_found that names the city in lower case
not_found_lowered(name) ==
  [error |-> Message("Coordinates for {} not found. Please try another city.", lower(name))]

\* a variant of not_found that also echoes the city in a field of its own
not_found_echoing(name) ==
  [error |-> Message("Coordinates for {} not found. Please try another city.", name),
   from_city |-> name]

\* the payload of a city that is not in the gazetteer
not_found(name) ==
  [error |-> Message("Coordinates for {} not found. Please try another city.", name)]

\* the except clauses of calculate_distance
calculate_distance_except(e) ==
  IF e = "KeyError" THEN [error |-> Message("City not found: {}", e)]
  ELSE IF e \in ExceptionClasses THEN [error |-> Message("{}", e)]
  ELSE Propagates(e)

\* the value calculate_distance returns, given the dict it has built
calculate_distance_result(from, to, coordinates) ==
  IF from = NoneArg \/ to = NoneArg
  THEN calculate_distance_except("AttributeError")
  ELSE
    LET from_city_lower == normalize(from)
        to_city_lower == normalize(to)
    IN  IF from_city_lower \notin DOMAIN coordinates THEN not_found(from)
        ELSE IF to_city_lower \notin DOMAIN coordinates THEN not_found(to)
        ELSE
          LET from_coords == coordinates[from_city_lower]
              to_coords == coordinates[to_city_lower]
              distance_km == haversine_distance(from_coords.lat, from_coords.lon,
                                                to_coords.lat, to_coords.lon)
          IN  IF distance_km.raised # ""
              THEN calculate_distance_except(distance_km.raised)
              ELSE [from_city |-> from,
                    to_city |-> to,
                    distance_km |-> round2(distance_km.value),
                    distance_miles |-> round2(to_miles(distance_km.value))]

(***************************************************************************)
(* get_weather: JSON values, the HTTP response, the parsing.               *)
(***************************************************************************)
JObject(f) == [t |-> "object", v |-> f]

JArray(s) == [t |-> "array", v |-> s]

\* a JSON number, in hundredths
JNumber(n) == [t |-> "number", v |-> n]

\* a JSON string, as a sequence of characters
JString(s) == [t |-> "string", v |-> s]

JNull == [t |-> "null", v |-> 0]

Value(x) == [raised |-> "", arg |-> "", value |-> x]

Raise(e, a) == [raised |-> e, arg |-> a, value |-> JNull]

\* x[key] for a str key
getitem_key(x, key) ==
  IF x.t = "object"
  THEN IF key \in DOMAIN x.v THEN Value(x.v[key]) ELSE Raise("KeyError", key)
  ELSE Raise("TypeError", "")

\* x[0]
getitem_first(x) ==
  CASE x.t = "array" -> IF Len(x.v) > 0 THEN Value(x.v[1]) ELSE Raise("IndexError", "")
    [] x.t = "string" -> IF Len(x.v) > 0 THEN Value(JString(<<x.v[1]>>))
                         ELSE Raise("IndexError", "")
    [] x.t = "object" -> Raise("KeyError", "0")
    [] OTHER -> Raise("TypeError", "")

\* x[k1][k2]
getitem2(x, k1, k2) ==
  LET a == getitem_key(x, k1)
  IN  IF a.raised # "" THEN a ELSE getitem_key(a.value, k2)

\* data["weather"][0]["description"]
conditions_of(data) ==
  LET a == getitem_key(data, "weather")
      b == IF a.raised # "" THEN a ELSE getitem_first(a.value)
  IN  IF b.raised # "" THEN b ELSE getitem_key(b.value, "description")

\* round((temp * 9/5) + 32, 1): tenths of a degree from hundredths
temperature_f(temp) ==
  IF temp.t = "number" THEN Value(RoundDiv(temp.v * 9 + 16000, 50))
  ELSE Raise("TypeError", "")

\* the first exception raised by a sequence of evaluations, if any
RECURSIVE FirstRaised(_)
FirstRaised(evals) ==
  IF evals = <<>> THEN Value(JNull)
  ELSE IF Head(evals).raised # "" THEN Head(evals)
  ELSE FirstRaised(Tail(evals))

\* the dict weather_data, or the exception its construction raises
weather_data(c, data) ==
  LET temp == getitem2(data, "main", "temp")
      temp_f == IF temp.raised # "" THEN temp ELSE temperature_f(temp.value)
      conditions == conditions_of(data)
      humidity == getitem2(data, "main", "humidity")
      wind_speed == getitem2(data, "wind", "speed")
      pressure == getitem2(data, "main", "pressure")
      failed == FirstRaised(<<temp, temp_f, conditions, humidity, wind_speed, pressure>>)
  IN  IF failed.raised # "" THEN failed
      ELSE Value([city |-> c,
                  temperature |-> temp.value,
                  temperature_f |-> temp_f.value,
                  conditions |-> conditions.value,
                  humidity |-> humidity.value,
                  wind_speed |-> wind_speed.value,
                  pressure |-> pressure.value])

\* the outcome of requests.get: an exception, or a response with its status,
\* its text and what response.json() gives
TransportFailure(e, cause) ==
  [exc |-> e, cause |-> cause, status_code |-> 0, text |-> "", json_raises |-> "",
   data |-> JNull]

JsonResponse(status, text, data) ==
  [exc |-> "", cause |-> "", status_code |-> status, text |-> text, json_raises |-> "",
   data |-> data]

\* a body that is not JSON; raises is the class response.json() raises, which
\* derives from RequestException from requests 2.27 on and from ValueError before
TextResponse(status, text, raises) ==
  [exc |-> "", cause |-> "", status_code |-> status, text |-> text, json_raises |-> raises,
   data |-> JNull]

\* a variant of get_weather_try that takes every 2xx status for a success
get_weather_try_any_2xx(c, resp) ==
  IF resp.exc # "" THEN Raise(resp.exc, resp.cause)
  ELSE IF resp.status_code \in 200..299
  THEN IF resp.json_raises # "" THEN Raise(resp.json_raises, resp.text)
       ELSE weather_data(c, resp.data)
  ELSE Value([error |-> [template |-> "API Error: {} - {}",
                         status_code |-> resp.status_code,
                         text |-> resp.text]])

\* the body of the try block of get_weather, from the response on
get_weather_try(c, resp) ==
  IF resp.exc # "" THEN Raise(resp.exc, resp.cause)
  ELSE IF resp.status_code = 200
  THEN IF resp.json_raises # "" THEN Raise(resp.json_raises, resp.text)
       ELSE weather_data(c, resp.data)
  ELSE Value([error |-> [template |-> "API Error: {} - {}",
                         status_code |-> resp.status_code,
                         text |-> resp.text]])

\* a variant of get_weather_except without the last clause, except Exception
get_weather_except_two_clauses(e, a) ==
  IF e \in RequestExceptions THEN [error |-> Message("Network error: {}", a)]
  ELSE IF e = "KeyError" THEN [error |-> Message("Could not parse weather data: {}", a)]
  ELSE Propagates(e)

\* the except clauses of get_weather
get_weather_except(e, a) ==
  IF e \in RequestExceptions THEN [error |-> Message("Network error: {}", a)]
  ELSE IF e = "KeyError" THEN [error |-> Message("Could not parse weather data: {}", a)]
  ELSE IF e \in ExceptionClasses THEN [error |-> Message("{}", e)]
  ELSE Propagates(e)

\* the value get_weather returns for the outcome of its GET
get_weather_result(c, resp) ==
  LET t == get_weather_try(c, resp)
  IN  IF t.raised # "" THEN get_weather_except(t.raised, t.arg) ELSE t.value

(***************************************************************************)
(* The arguments and the HTTP outcomes the model draws from.               *)
(***************************************************************************)
Keys == DOMAIN CityCoordinates

Madrid == <<"m","a","d","r","i","d">>

Rome == <<"r","o","m","e">>

NewYork == <<"n","e","w"," ","y","o","r","k">>

London == <<"L","o","n","d","o","n">>

Nowhereville == <<"N","o","w","h","e","r","e","v","i","l","l","e">>

\* upper-case, capitalised and mixed-case spellings of gazetteer names
CaseVariants ==
  {upper(Madrid), capitalize(Madrid), upper(Rome), capitalize(Rome),
   <<"r","O","m","E">>, upper(NewYork), <<"N","e","w"," ","Y","o","r","k">>}

\* gazetteer names with leading or trailing whitespace
PaddedNames ==
  {<<" ">> \o Madrid \o <<" ">>, Madrid \o <<" ">>, <<" ">> \o Madrid,
   <<"\t">> \o capitalize(Rome), upper(Rome) \o <<"\n">>}

\* names that are no gazetteer name: unknown, prefix, partial, misspelt, empty
UnknownNames ==
  {Nowhereville, <<"m","a","d","r","i">>, <<"M","a","d">>, <<"y","o","r","k">>,
   <<"m","a","d","i","r","d">>, Madrid \o <<" ">> \o <<"s","p","a","i","n">>, <<>>}

DistanceArgs == Keys \cup CaseVariants \cup PaddedNames \cup UnknownNames \cup {NoneArg}

WeatherArgs == {London, Nowhereville, NoneArg}

Chars(s) == JString(s)

\* a complete body of the weather provider, and the parts deviating bodies lack
MainPart == [temp |-> JNumber(2137), humidity |-> JNumber(6400), pressure |-> JNumber(101300)]

WindPart == [speed |-> JNumber(410)]

WeatherPart == <<JObject([description |-> Chars(<<"r","a","i","n">>)])>>

Body(main, weather, wind) ==
  JObject([main |-> main, weather |-> weather, wind |-> wind])

GoodBody == Body(JObject(MainPart), JArray(WeatherPart), JObject(WindPart))

ColdBody ==
  Body(JObject([MainPart EXCEPT !.temp = JNumber(0 - 1725)]), JArray(WeatherPart),
       JObject(WindPart))

Outcomes ==
  << TransportFailure("Timeout", "read timed out"),
     TransportFailure("ConnectionError", "connection refused"),
     TransportFailure("ConnectionError", "name resolution failed"),
     JsonResponse(401, "{cod: 401, message: Invalid API key}",
                  JObject([cod |-> JNumber(40100)])),
     JsonResponse(404, "{cod: 404, message: city not found}",
                  JObject([cod |-> Chars(<<"4","0","4">>)])),
     TextResponse(500, "<html>Internal Server Error</html>", "requests.JSONDecodeError"),
     TextResponse(204, "", "json.JSONDecodeError"),
     JsonResponse(201, "{main: .., weather: [..], wind: ..}", GoodBody),
     JsonResponse(200, "{main: .., weather: [..], wind: ..}", GoodBody),
     JsonResponse(200, "{main: {temp: -17.25, ..}, weather: [..], wind: ..}", ColdBody),
     JsonResponse(200, "{weather: [..], wind: ..}",
                  JObject([weather |-> JArray(WeatherPart), wind |-> JObject(WindPart)])),
     JsonResponse(200, "{main: {humidity: .., pressure: ..}, ..}",
                  Body(JObject([humidity |-> JNumber(6400), pressure |-> JNumber(101300)]),
                       JArray(WeatherPart), JObject(WindPart))),
     JsonResponse(200, "{main: {temp: .., pressure: ..}, ..}",
                  Body(JObject([temp |-> JNumber(2137), pressure |-> JNumber(101300)]),
                       JArray(WeatherPart), JObject(WindPart))),
     JsonResponse(200, "{main: {temp: .., humidity: ..}, ..}",
                  Body(JObject([temp |-> JNumber(2137), humidity |-> JNumber(6400)]),
                       JArray(WeatherPart), JObject(WindPart))),
     JsonResponse(200, "{main: .., weather: [..]}",
                  JObject([main |-> JObject(MainPart), weather |-> JArray(WeatherPart)])),
     JsonResponse(200, "{main: .., weather: [..], wind: {deg: 10}}",
                  Body(JObject(MainPart), JArray(WeatherPart),
                       JObject([deg |-> JNumber(1000)]))),
     JsonResponse(200, "{main: .., wind: ..}",
                  JObject([main |-> JObject(MainPart), wind |-> JObject(WindPart)])),
     JsonResponse(200, "{main: .., weather: [], wind: ..}",
                  Body(JObject(MainPart), JArray(<<>>), JObject(WindPart))),
     JsonResponse(200, "{main: .., weather: [{id: 500}], wind: ..}",
                  Body(JObject(MainPart), JArray(<<JObject([id |-> JNumber(50000)])>>),
                       JObject(WindPart))),
     JsonResponse(200, "{main: .., weather: {description: rain}, wind: ..}",
                  Body(JObject(MainPart),
                       JObject([description |-> Chars(<<"r","a","i","n">>)]),
                       JObject(WindPart))),
     JsonResponse(200, "{main: {temp: '21.37', ..}, ..}",
                  Body(JObject([MainPart EXCEPT !.temp = Chars(<<"2","1",".","3","7">>)]),
                       JArray(WeatherPart), JObject(WindPart))),
     JsonResponse(200, "{main: {temp: null, ..}, ..}",
                  Body(JObject([MainPart EXCEPT !.temp = JNull]), JArray(WeatherPart),
                       JObject(WindPart))),
     JsonResponse(200, "{main: [21.37], ..}",
                  Body(JArray(<<JNumber(2137)>>), JArray(WeatherPart), JObject(WindPart))),
     JsonResponse(200, "{main: {.., humidity: 'high', ..}, ..}",
                  Body(JObject([MainPart EXCEPT !.humidity = Chars(<<"h","i","g","h">>)]),
                       JArray(WeatherPart), JObject(WindPart))),
     JsonResponse(200, "[]", JArray(<<>>)),
     JsonResponse(200, "null", JNull),
     TextResponse(200, "<html>captive portal</html>", "requests.JSONDecodeError"),
     TextResponse(200, "<html>captive portal</html>", "json.JSONDecodeError") >>

\* the state of response before the first GET returns
NoResponse == TransportFailure("", "")

(***************************************************************************)
(* The state machine: a caller invokes one of the two tools, up to         *)
(* MaxCalls times in a row with the arguments drawn at the start.          *)
(***************************************************************************)
Init ==
  /\ tool \in {"get_weather", "calculate_distance"}
  /\ pc = "ready"
  /\ IF tool = "get_weather"
     THEN city \in WeatherArgs /\ from_city = <<>> /\ to_city = <<>>
     ELSE city = <<>> /\ from_city \in DistanceArgs /\ to_city \in DistanceArgs
  /\ response = NoResponse
  /\ result = NoResult
  /\ calls = 0
  /\ gets = 0
  /\ city_coordinates = <<>>

\* get_weather up to requests.get: builds the URL and issues the GET
get_weather_call ==
  /\ tool = "get_weather"
  /\ pc = "ready"
  /\ calls < MaxCalls
  /\ pc' = "awaiting"
  /\ calls' = calls + 1
  /\ gets' = gets + 1
  /\ UNCHANGED <<tool, city, from_city, to_city, response, result, city_coordinates>>

\* a variant of get_weather_return that repeats the GET once when the
\* outcome is not a success payload
get_weather_return_retrying(outcome) ==
  /\ tool = "get_weather"
  /\ pc = "awaiting"
  /\ response' = outcome
  /\ result' = get_weather_result(city, outcome)
  /\ IF "error" \in DOMAIN result' /\ gets = calls
     THEN pc' = "awaiting" /\ gets' = gets + 1
     ELSE pc' = "ready" /\ gets' = gets
  /\ UNCHANGED <<tool, city, from_city, to_city, calls, city_coordinates>>

\* get_weather from the outcome of requests.get to its return
get_weather_return(outcome) ==
  /\ tool = "get_weather"
  /\ pc = "awaiting"
  /\ response' = outcome
  /\ result' = get_weather_result(city, outcome)
  /\ pc' = "ready"
  /\ UNCHANGED <<tool, city, from_city, to_city, calls, gets, city_coordinates>>

\* a variant of calculate_distance that enters a name it does not find
\* into the dict, at latitude 0 and longitude 0
calculate_distance_inserting ==
  /\ tool = "calculate_distance"
  /\ pc = "ready"
  /\ calls < MaxCalls
  /\ city_coordinates' =
       IF normalize(from_city) \in DOMAIN CityCoordinates THEN CityCoordinates
       ELSE [k \in DOMAIN CityCoordinates \cup {normalize(from_city)} |->
               IF k \in DOMAIN CityCoordinates THEN CityCoordinates[k]
               ELSE [lat |-> 0, lon |-> 0]]
  /\ result' = calculate_distance_result(from_city, to_city, CityCoordinates)
  /\ calls' = calls + 1
  /\ UNCHANGED <<tool, pc, city, from_city, to_city, response, gets>>

\* calculate_distance, from its call to its return
calculate_distance ==
  /\ tool = "calculate_distance"
  /\ pc = "ready"
  /\ calls < MaxCalls
  /\ city_coordinates' = CityCoordinates
  /\ result' = calculate_distance_result(from_city, to_city, city_coordinates')
  /\ calls' = calls + 1
  /\ UNCHANGED <<tool, pc, city, from_city, to_city, response, gets>>

Next ==
  \/ get_weather_call
  \/ \E i \in 1..Len(Outcomes) : get_weather_return(Outcomes[i])
  \/ calculate_distance

Spec == Init /\ [][Next]_vars

\* a call of the tool has returned
Returned == calls > 0 /\ pc = "ready"

(***************************************************************************)
(* Vocabulary of the properties.                                           *)
(***************************************************************************)
DistanceFields == {"from_city", "to_city", "distance_km", "distance_miles"}

WeatherFields ==
  {"city", "temperature", "temperature_f", "conditions", "humidity", "wind_speed",
   "pressure"}

IsError(p) == DOMAIN p = {"error"}

DistanceReturned == tool = "calculate_distance" /\ Returned

WeatherReturned == tool = "get_weather" /\ Returned

\* both arguments of calculate_distance are strings
StringArgs == from_city # NoneArg /\ to_city # NoneArg

\* two names are equal up to the case of their letters
SameIgnoringCase(a, b) ==
  Len(a) = Len(b) /\ \A i \in 1..Len(a) : lower_char(a[i]) = lower_char(b[i])

\* the name is, up to case, a key of the gazetteer
Present(name) == \E k \in Keys : SameIgnoringCase(name, k)

\* the name is a gazetteer key with whitespace added in front or behind
Padded(name) == strip(name) # name /\ Present(strip(name))

NotFoundTemplate == "Coordinates for {} not found. Please try another city."

\* the payload is the not-found error that names the city as given
NamesMissing(p, name) ==
  /\ IsError(p)
  /\ p.error.template = NotFoundTemplate
  /\ p.error.arg = name

\* the gazetteer as the specification lists it: name, latitude, longitude
ListedEntries ==
  {<<<<"m","a","l","a","g","a">>, 367213, -44213>>,
   <<<<"m","a","d","r","i","d">>, 404168, -37038>>,
   <<<<"b","a","r","c","e","l","o","n","a">>, 413851, 21734>>,
   <<<<"v","a","l","e","n","c","i","a">>, 394699, -3763>>,
   <<<<"s","e","v","i","l","l","e">>, 373891, -59845>>,
   <<<<"f","u","e","n","g","i","r","o","l","a">>, 365393, -46249>>,
   <<<<"m","a","r","b","e","l","l","a">>, 365100, -48861>>,
   <<<<"l","o","n","d","o","n">>, 515074, -1278>>,
   <<<<"p","a","r","i","s">>, 488566, 23522>>,
   <<<<"b","e","r","l","i","n">>, 525200, 134050>>,
   <<<<"r","o","m","e">>, 419028, 124964>>,
   <<<<"a","m","s","t","e","r","d","a","m">>, 523676, 49041>>,
   <<<<"l","i","s","b","o","n">>, 387223, -91393>>,
   <<<<"n","e","w"," ","y","o","r","k">>, 407128, -740060>>,
   <<<<"l","o","s"," ","a","n","g","e","l","e","s">>, 340522, -1182437>>,
   <<<<"c","h","i","c","a","g","o">>, 418781, -876298>>,
   <<<<"t","o","r","o","n","t","o">>, 436532, -793832>>,
   <<<<"m","e","x","i","c","o"," ","c","i","t","y">>, 194326, -991332>>,
   <<<<"b","u","e","n","o","s"," ","a","i","r","e","s">>, 346037, -583816>>,
   <<<<"t","o","k","y","o">>, 356762, 1396503>>,
   <<<<"b","e","i","j","i","n","g">>, 399042, 1164074>>,
   <<<<"s","y","d","n","e","y">>, 338688, 1512093>>,
   <<<<"s","i","n","g","a","p","o","r","e">>, 13521, 1038198>>,
   <<<<"d","u","b","a","i">>, 252048, 552708>>}

EntriesOf(coordinates) ==
  {<<k, coordinates[k].lat, coordinates[k].lon>> : k \in DOMAIN coordinates}

\* the body has every field get_weather reads, each of its expected type
WellFormedBody(d) ==
  /\ d.t = "object"
  /\ {"main", "weather", "wind"} \subseteq DOMAIN d.v
  /\ d.v["main"].t = "object"
  /\ {"temp", "humidity", "pressure"} \subseteq DOMAIN d.v["main"].v
  /\ \A f \in {"temp", "humidity", "pressure"} : d.v["main"].v[f].t = "number"
  /\ d.v["wind"].t = "object"
  /\ "speed" \in DOMAIN d.v["wind"].v
  /\ d.v["wind"].v["speed"].t = "number"
  /\ d.v["weather"].t = "array"
  /\ Len(d.v["weather"].v) > 0
  /\ d.v["weather"].v[1].t = "object"
  /\ "description" \in DOMAIN d.v["weather"].v[1].v
  /\ d.v["weather"].v[1].v["description"].t = "string"

\* the response is a 200 whose body is not what get_weather expects
DeviatingBody(resp) ==
  /\ resp.exc = ""
  /\ resp.status_code = 200
  /\ resp.json_raises # "" \/ ~WellFormedBody(resp.data)

(***************************************************************************)
(* Properties.                                                             *)
(***************************************************************************)

\* C1: every invocation of get_weather and of calculate_distance returns a
\* payload; no exception leaves the tool, whatever the arguments and
\* whatever the HTTP collaborator does.
C1_AlwaysReturnsAValue ==
  Returned => /\ "uncaught" \notin DOMAIN result
              /\ "pending" \notin DOMAIN result
              /\ DOMAIN result # {}

\* get_weather has met an exception that only the last except clause takes
C1_Witness ==
  /\ WeatherReturned
  /\ DeviatingBody(response)
  /\ IsError(result)
  /\ result.error.template = "{}"

\* C2: when a city is absent from the gazetteer, calculate_distance returns
\* an error payload that names a missing city as the caller gave it and
\* carries no distance field; the first missing city is the one named.
C2_MissingCityIsNamed ==
  (DistanceReturned /\ StringArgs) =>
    /\ ~Present(from_city) => NamesMissing(result, from_city)
    /\ (Present(from_city) /\ ~Present(to_city)) => NamesMissing(result, to_city)

\* only to_city is missing, and it is given with a capital letter
C2_Witness ==
  /\ DistanceReturned
  /\ from_city = upper(Madrid)
  /\ to_city = Nowhereville
  /\ NamesMissing(result, Nowhereville)

\* C3 as stated: a gazetteer name with leading or trailing whitespace
\* resolves, and the call yields a success payload.
C3_PaddedNameResolves ==
  (DistanceReturned /\ StringArgs /\ Present(strip(from_city)) /\ Present(strip(to_city)))
    => DOMAIN result = DistanceFields

\* C3 amended: the lookup lowercases the names and does not trim them; a
\* gazetteer name with leading or trailing whitespace is not found, and the
\* error names it as given.
C3_PaddedNameIsNotFound ==
  (DistanceReturned /\ StringArgs) =>
    /\ Padded(from_city) => NamesMissing(result, from_city)
    /\ (Present(from_city) /\ Padded(to_city)) => NamesMissing(result, to_city)

\* " madrid " to "madrid"
C3_Witness ==
  /\ DistanceReturned
  /\ from_city = <<" ">> \o Madrid \o <<" ">>
  /\ to_city = Madrid
  /\ IsError(result)

\* C4 as stated: a 200 whose body lacks a field, has one malformed or is
\* not JSON yields the parsing error, never the network or generic error.
C4_DeviatingBodyIsParsingError ==
  (WeatherReturned /\ DeviatingBody(response)) =>
    /\ IsError(result)
    /\ result.error.template = "Could not parse weather data: {}"

\* C5: a status other than 200 yields the API error with the status code and
\* the body text, whatever the body is; a transport failure yields the
\* network error with its cause.
C5_StatusAndTransportErrors ==
  WeatherReturned =>
    /\ (response.exc = "" /\ response.status_code # 200) =>
         /\ IsError(result)
         /\ result.error.template = "API Error: {} - {}"
         /\ result.error.status_code = response.status_code
         /\ result.error.text = response.text
    /\ response.exc # "" =>
         /\ IsError(result)
         /\ result.error.template = "Network error: {}"
         /\ result.error.arg = response.cause

\* a 201 whose body is a complete weather body
C5_Witness ==
  /\ WeatherReturned
  /\ response.status_code = 201
  /\ WellFormedBody(response.data)
  /\ IsError(result)
  /\ result.error.template = "API Error: {} - {}"

\* C6: a result is a success payload with all its fields and no error
\* field, or an error payload with the error field alone.
C6_TaggedShape ==
  /\ DistanceReturned => (DOMAIN result = DistanceFields \/ IsError(result))
  /\ WeatherReturned => (DOMAIN result = WeatherFields \/ IsError(result))

\* calculate_distance has returned the not-found error
C6_Witness ==
  /\ DistanceReturned
  /\ from_city = Nowhereville
  /\ IsError(result)
  /\ DOMAIN result \cap DistanceFields = {}

\* C7: get_weather issues one GET per invocation, none again after a
\* failure, and what it returns is determined by the outcome of that GET.
C7_OneGetPerCall ==
  tool = "get_weather" =>
    /\ gets = calls
    /\ Returned => result = get_weather_result(city, response)

\* the second call of a row has failed and returned
C7_Witness ==
  /\ WeatherReturned
  /\ calls = MaxCalls
  /\ gets = calls
  /\ IsError(result)

\* C8: for gazetteer cities a and b, calculate_distance(a, b) and
\* calculate_distance(b, a) succeed with the same kilometres and miles.
C8_Symmetry ==
  (DistanceReturned /\ from_city \in Keys /\ to_city \in Keys) =>
    LET back == calculate_distance_result(to_city, from_city, city_coordinates)
    IN  /\ DOMAIN result = DistanceFields
        /\ DOMAIN back = DistanceFields
        /\ result.distance_km = back.distance_km
        /\ result.distance_miles = back.distance_miles

\* madrid to new york, at different latitudes
C8_Witness ==
  /\ DistanceReturned
  /\ from_city = Madrid
  /\ to_city = NewYork
  /\ DOMAIN result = DistanceFields
  /\ result.distance_km > 0

\* C9: a call whose names equal gazetteer keys up to case succeeds with the
\* distances of the lower-case call, and a call succeeds only if both names
\* equal a key up to case.
C9_CaseInsensitiveNotFuzzy ==
  (DistanceReturned /\ StringArgs) =>
    /\ (Present(from_city) /\ Present(to_city)) =>
         LET plain == calculate_distance_result(lower(from_city), lower(to_city),
                                                city_coordinates)
         IN  /\ DOMAIN result = DistanceFields
             /\ DOMAIN plain = DistanceFields
             /\ result.distance_km = plain.distance_km
             /\ result.distance_miles = plain.distance_miles
    /\ DOMAIN result = DistanceFields => (Present(from_city) /\ Present(to_city))

\* "MADRID" to "rOmE"
C9_Witness ==
  /\ DistanceReturned
  /\ from_city = upper(Madrid)
  /\ to_city = <<"r","O","m","E">>
  /\ DOMAIN result = DistanceFields
  /\ result.distance_km > 0

\* C10 as stated: the gazetteer has 22 entries.
C10_TwentyTwoEntries ==
  (tool = "calculate_distance" /\ calls > 0) => Cardinality(DOMAIN city_coordinates) = 22

\* C10 amended: in every call the gazetteer is the 24 listed entries, its
\* keys are lower case, and latitudes and longitudes are within range.
C10_ListedGazetteer ==
  (tool = "calculate_distance" /\ calls > 0) =>
    /\ EntriesOf(city_coordinates) = ListedEntries
    /\ Cardinality(DOMAIN city_coordinates) = 24
    /\ \A k \in DOMAIN city_coordinates :
         /\ lower(k) = k
         /\ city_coordinates[k].lat \in (0 - 900000)..900000
         /\ city_coordinates[k].lon \in (0 - 1800000)..1800000

\* the second call of a row, with a name the gazetteer does not have
C10_Witness ==
  /\ DistanceReturned
  /\ calls = MaxCalls
  /\ from_city = Nowhereville
  /\ Cardinality(DOMAIN city_coordinates) = 24
====
